---- MODULE Spec2Model ----
(***************************************************************************)
(* Model of the darner queue client: the cluster fan-in reader             *)
(* (ClusterReader), the exponential backoff controller (Backoff) and the   *)
(* round-robin cluster writer (ClusterWriter).                             *)
(*                                                                         *)
(* Durations are in milliseconds.  The reader's workers are goroutines;    *)
(* every access to memory shared between goroutines is a step of its own.  *)
(* The reader part follows one ReadIntoChannel call on a fresh reader, with *)
(* Close() callable at any time, before, during and after it.              *)
(***************************************************************************)
EXTENDS Integers, Sequences, FiniteSets, TLC

\* ------------------------------------------------------------------ bounds
MaxClients == 2        \* endpoints configured on a reader
MaxItems == 2          \* items one endpoint hands out
MaxAttempt == 2        \* fetch errors are enabled while the counter is below
MaxChanCap == 1        \* capacity of the caller's output channel (0 = unbuffered)
MaxCloseCalls == 2     \* Close() invocations
MaxWrites == 5         \* Write() invocations
MaxWriters == 2        \* goroutines calling Write concurrently
MaxWriterClients == 3  \* endpoints configured on a writer
FloatCeil == 1000000000 \* products above this are kept as this value
MaxN == 25             \* attempt numbers handed to ForAttempt
MaxAddrs == 2          \* servers the stats selector lists
MaxLines == 2          \* STAT lines one server sends before the end marker

\* --------------------------------------------------------------- variables
VARIABLES
    clients,     \* r.clients: number of configured endpoints, indexed 1..clients
    chanCap,     \* cap(ch) of the channel handed to ReadIntoChannel
    closed,      \* r.closed: 0 is nil, 1 is the channel made by ReadIntoChannel
    closedChan,  \* TRUE once close(r.closed) has run on that channel
    wg,          \* r.wg counter
    mainPc,      \* position of the goroutine calling ReadIntoChannel
    next,        \* index of the next client of the range loop
    started,     \* started[e]: worker goroutines launched for client e
    pc,          \* pc[w]: position of worker w in its loop
    hasFailed,   \* hasFailed[w]
    attempt,     \* r.Backoff.attempt, the one Backoff all workers point to
    d,           \* d[w]: the duration Duration() computed for w's current sleep
    tmp,         \* tmp[w]: value worker w loaded for b.attempt++
    item,        \* item[w]: the fetched item w is about to push (0: none)
    nextItem,    \* nextItem[e]: items endpoint e has handed out so far
    buf,         \* the output channel's buffer
    received,    \* items the consumer has received, in order
    closeCalls,  \* Close() calls made
    crashed,     \* the process panicked
    consecFails, \* consecFails[w]: w's consecutive failed fetches
    everOk,      \* everOk[w]: some fetch of w returned an item or a miss
    everFail,    \* everFail[w]: some fetch of w returned an error
    afterClose,  \* afterClose[w]: items w pushed after close(r.closed)
    writers,     \* len(w.clients) of the ClusterWriter
    offset,      \* w.offset
    wpc,         \* wpc[p]: position of the goroutine p inside Write
    sel,         \* sel[p]: index getClient returned to p (-1: nil client)
    calls,       \* getClient results so far, in order: [val, idx, by]
    enq,         \* enq[e]: Set calls made on writer endpoint e (0-based)
    werr,        \* werr[p]: what p's last Write returned
    bo,          \* a Backoff used by one goroutine: its Min, Max, Factor
    boAttempt,   \* its attempt field
    lastD,       \* what its last Duration() returned (-1: none since Reset)
    sinceReset,  \* Duration() calls since construction or the last Reset()
    wasReset,    \* Reset() has been called
    faN,         \* argument of the last ForAttempt call made directly (-1: none)
    faRes,       \* its result
    addrs,       \* number of server addresses the selector lists, 1..addrs
    statsPc,     \* position of the goroutine calling StatsServers
    statsErr,    \* err StatsServers returns
    servers,     \* servers[addr]: the ServerStats of addr
    gPc,         \* gPc[addr]: position of the goroutine querying addr
    swg,         \* the WaitGroup of StatsServers
    lines        \* lines[addr]: the STAT lines read from addr so far

rvars == <<clients, chanCap, closed, closedChan, wg, mainPc, next, started, pc,
           hasFailed, attempt, d, tmp, item, nextItem, buf, received,
           closeCalls, crashed, consecFails, everOk, everFail, afterClose>>
wvars == <<writers, offset, wpc, sel, calls, enq, werr>>
bvars == <<bo, boAttempt, lastD, sinceReset, wasReset, faN, faRes>>
svars == <<addrs, statsPc, statsErr, servers, gPc, swg, lines>>
vars == <<rvars, wvars, bvars, svars>>

otherThanReader == <<wvars, bvars, svars>>
otherThanWriter == <<rvars, bvars, svars>>
otherThanBackoff == <<rvars, wvars, svars>>
otherThanStats == <<rvars, wvars, bvars>>

Workers == 1..clients

\* ----------------------------------------------------------------- Backoff
\* Factor is a float64: <<num, den>> stands for num/den, with den = 1 or
\* num = 1.  Products are exact up to FloatCeil and kept at FloatCeil above it.

\* the overflow guard's threshold float64(math.MaxInt64 - 512), scaled to the
\* largest product told apart
maxInt64 == FloatCeil - 1

\* minf * math.Pow(factor, attempt)
RECURSIVE Pow(_, _, _)
Pow(minf, factor, n) ==
    IF n = 0 THEN minf
    ELSE LET p == Pow(minf, factor, n - 1)
         IN IF p >= FloatCeil \div factor[1] THEN FloatCeil
            ELSE (p * factor[1]) \div factor[2]

\* time.Duration(durf): truncation; a float above the int64 range converts
\* to the most negative int64
ToDuration(durf) == IF durf > maxInt64 THEN 0 - FloatCeil ELSE durf

effectiveMin(b) == IF b.Min <= 0 THEN 100 ELSE b.Min

effectiveMax(b) == IF b.Max <= 0 THEN 10000 ELSE b.Max

effectiveFactor(b) == IF b.Factor[1] <= 0 THEN <<2, 1>> ELSE b.Factor

\* ForAttempt without the final clamp to max
ForAttempt_NoClamp(b, n) ==
    LET min == effectiveMin(b)
        max == effectiveMax(b)
        durf == Pow(min, effectiveFactor(b), n)
        dur == ToDuration(durf)
    IN IF min >= max THEN max
       ELSE IF durf > maxInt64 THEN max
       ELSE IF dur < min THEN min
       ELSE dur

\* ForAttempt without the overflow guard
ForAttempt_NoGuard(b, n) ==
    LET min == effectiveMin(b)
        max == effectiveMax(b)
        durf == Pow(min, effectiveFactor(b), n)
        dur == ToDuration(durf)
    IN IF min >= max THEN max
       ELSE IF dur < min THEN min
       ELSE IF dur > max THEN max
       ELSE dur

ForAttempt(b, n) ==
    LET min == effectiveMin(b)
        max == effectiveMax(b)
        durf == Pow(min, effectiveFactor(b), n)
        dur == ToDuration(durf)
    IN IF min >= max THEN max
       ELSE IF durf > maxInt64 THEN max
       ELSE IF dur < min THEN min
       ELSE IF dur > max THEN max
       ELSE dur

\* the Backoff NewClusterReader installs
Backoff == [Min |-> 100, Max |-> 300000, Factor |-> <<2, 1>>]

\* Min, Max and Factor values a caller sets on a Backoff
Mins == {-5, 0, 100, 400, 20000}

Maxs == {-1, 0, 400, 10000, 300000}

Factors == {<<-1, 1>>, <<0, 1>>, <<1, 1>>, <<2, 1>>, <<3, 1>>, <<1, 2>>}

BInitIdle ==
    /\ bo = Backoff
    /\ boAttempt = 0
    /\ lastD = -1
    /\ sinceReset = 0
    /\ wasReset = FALSE
    /\ faN = -1
    /\ faRes = -1

BInit ==
    /\ bo \in [Min : Mins, Max : Maxs, Factor : Factors]
    /\ boAttempt = 0
    /\ lastD = -1
    /\ sinceReset = 0
    /\ wasReset = FALSE
    /\ faN = -1
    /\ faRes = -1

\* Duration() incrementing before it computes
Duration_IncFirst ==
    /\ boAttempt < MaxN
    /\ lastD' = ForAttempt(bo, boAttempt + 1)
    /\ boAttempt' = boAttempt + 1
    /\ sinceReset' = sinceReset + 1
    /\ UNCHANGED <<bo, wasReset, faN, faRes>>
    /\ UNCHANGED otherThanBackoff

\* d := b.ForAttempt(b.attempt); b.attempt++; return d
Duration ==
    /\ boAttempt < MaxN
    /\ lastD' = ForAttempt(bo, boAttempt)
    /\ boAttempt' = boAttempt + 1
    /\ sinceReset' = sinceReset + 1
    /\ UNCHANGED <<bo, wasReset, faN, faRes>>
    /\ UNCHANGED otherThanBackoff

\* b.attempt = 0
Reset ==
    /\ boAttempt' = 0
    /\ sinceReset' = 0
    /\ lastD' = -1
    /\ wasReset' = TRUE
    /\ UNCHANGED <<bo, faN, faRes>>
    /\ UNCHANGED otherThanBackoff

\* a direct call b.ForAttempt(n)
ForAttemptCall(n) ==
    /\ faN' = n
    /\ faRes' = ForAttempt(bo, n)
    /\ UNCHANGED <<bo, boAttempt, lastD, sinceReset, wasReset>>
    /\ UNCHANGED otherThanBackoff

\* ------------------------------------------------------------------ reader
SInitIdle ==
    /\ addrs = 0
    /\ statsPc = "idle"
    /\ statsErr = "nil"
    /\ servers = <<>>
    /\ gPc = <<>>
    /\ swg = 0
    /\ lines = <<>>

WInitIdle ==
    /\ writers = 0
    /\ offset = 0
    /\ wpc = [p \in 1..MaxWriters |-> "idle"]
    /\ sel = [p \in 1..MaxWriters |-> -1]
    /\ calls = <<>>
    /\ enq = <<>>
    /\ werr = [p \in 1..MaxWriters |-> "none"]

RInitWith(n, c) ==
    /\ clients = n
    /\ chanCap = c
    /\ closed = 0
    /\ closedChan = FALSE
    /\ wg = 0
    /\ mainPc = "idle"
    /\ next = 1
    /\ started = [e \in 1..n |-> 0]
    /\ pc = [w \in 1..n |-> "none"]
    /\ hasFailed = [w \in 1..n |-> FALSE]
    /\ attempt = 0
    /\ d = [w \in 1..n |-> 0]
    /\ tmp = [w \in 1..n |-> 0]
    /\ item = [w \in 1..n |-> 0]
    /\ nextItem = [e \in 1..n |-> 0]
    /\ buf = <<>>
    /\ received = <<>>
    /\ closeCalls = 0
    /\ crashed = FALSE
    /\ consecFails = [w \in 1..n |-> 0]
    /\ everOk = [w \in 1..n |-> FALSE]
    /\ everFail = [w \in 1..n |-> FALSE]
    /\ afterClose = [w \in 1..n |-> 0]

Init ==
    /\ \E n \in 0..MaxClients, c \in 0..MaxChanCap : RInitWith(n, c)
    /\ WInitIdle
    /\ BInitIdle
    /\ SInitIdle

\* what ReadIntoChannel hands back to its caller: the function has no result
ReadIntoChannelResult == "none"

\* r.closed = make(chan struct{}), then the range loop starts
ReadIntoChannel ==
    /\ ~crashed
    /\ mainPc = "idle"
    /\ closed' = 1
    /\ closedChan' = FALSE
    /\ mainPc' = "loop"
    /\ UNCHANGED <<clients, chanCap, wg, next, started, pc, hasFailed, attempt,
                   d, tmp, item, nextItem, buf, received, closeCalls, crashed,
                   consecFails, everOk, everFail>>
    /\ UNCHANGED afterClose
    /\ UNCHANGED otherThanReader

\* one iteration of the range loop: r.wg.Add(1); go func(client, ...)
Spawn ==
    /\ ~crashed
    /\ mainPc = "loop"
    /\ next <= clients
    /\ wg' = wg + 1
    /\ started' = [started EXCEPT ![next] = @ + 1]
    /\ pc' = [pc EXCEPT ![next] = "fetch"]
    /\ next' = next + 1
    /\ UNCHANGED <<clients, chanCap, closed, closedChan, mainPc, hasFailed,
                   attempt, d, tmp, item, nextItem, buf, received, closeCalls,
                   crashed, consecFails, everOk, everFail>>
    /\ UNCHANGED afterClose
    /\ UNCHANGED otherThanReader

\* ReadIntoChannel returning without the join on r.wg
Wait_NoJoin ==
    /\ ~crashed
    /\ mainPc = "loop"
    /\ next > clients
    /\ mainPc' = "returned"
    /\ UNCHANGED <<clients, chanCap, closed, closedChan, wg, next, started, pc,
                   hasFailed, attempt, d, tmp, item, nextItem, buf, received,
                   closeCalls, crashed, consecFails, everOk, everFail>>
    /\ UNCHANGED afterClose
    /\ UNCHANGED otherThanReader

\* r.wg.Wait() after the loop, then ReadIntoChannel returns
Wait ==
    /\ ~crashed
    /\ mainPc = "loop"
    /\ next > clients
    /\ wg = 0
    /\ mainPc' = "returned"
    /\ UNCHANGED <<clients, chanCap, closed, closedChan, wg, next, started, pc,
                   hasFailed, attempt, d, tmp, item, nextItem, buf, received,
                   closeCalls, crashed, consecFails, everOk, everFail>>
    /\ UNCHANGED afterClose
    /\ UNCHANGED otherThanReader

\* the push placed so that the first item after a failure is not pushed
FetchItem_SkipPush(w) ==
    /\ ~crashed
    /\ pc[w] = "fetch"
    /\ nextItem[w] < MaxItems
    /\ nextItem' = [nextItem EXCEPT ![w] = @ + 1]
    /\ item' = [item EXCEPT ![w] = IF hasFailed[w] THEN 0 ELSE nextItem[w] + 1]
    /\ attempt' = 0
    /\ hasFailed' = [hasFailed EXCEPT ![w] = FALSE]
    /\ consecFails' = [consecFails EXCEPT ![w] = 0]
    /\ everOk' = [everOk EXCEPT ![w] = TRUE]
    /\ pc' = [pc EXCEPT ![w] = IF hasFailed[w] THEN "select" ELSE "push"]
    /\ UNCHANGED <<clients, chanCap, closed, closedChan, wg, mainPc, next,
                   started, d, tmp, buf, received, closeCalls, crashed, everFail>>
    /\ UNCHANGED afterClose
    /\ UNCHANGED otherThanReader

\* client.Get returns an item: r.Backoff.Reset(), hasFailed cleared, item != nil
FetchItem(w) ==
    /\ ~crashed
    /\ pc[w] = "fetch"
    /\ nextItem[w] < MaxItems
    /\ nextItem' = [nextItem EXCEPT ![w] = @ + 1]
    /\ item' = [item EXCEPT ![w] = nextItem[w] + 1]
    /\ attempt' = 0
    /\ hasFailed' = [hasFailed EXCEPT ![w] = FALSE]
    /\ consecFails' = [consecFails EXCEPT ![w] = 0]
    /\ everOk' = [everOk EXCEPT ![w] = TRUE]
    /\ pc' = [pc EXCEPT ![w] = "push"]
    /\ UNCHANGED <<clients, chanCap, closed, closedChan, wg, mainPc, next,
                   started, d, tmp, buf, received, closeCalls, crashed, everFail>>
    /\ UNCHANGED afterClose
    /\ UNCHANGED otherThanReader

\* client.Get returns ErrCacheMiss: r.Backoff.Reset(), hasFailed cleared, item == nil
FetchMiss(w) ==
    /\ ~crashed
    /\ pc[w] = "fetch"
    /\ attempt' = 0
    /\ hasFailed' = [hasFailed EXCEPT ![w] = FALSE]
    /\ consecFails' = [consecFails EXCEPT ![w] = 0]
    /\ everOk' = [everOk EXCEPT ![w] = TRUE]
    /\ pc' = [pc EXCEPT ![w] = "select"]
    /\ UNCHANGED <<clients, chanCap, closed, closedChan, wg, mainPc, next,
                   started, d, tmp, item, nextItem, buf, received, closeCalls,
                   crashed, everFail>>
    /\ UNCHANGED afterClose
    /\ UNCHANGED otherThanReader

\* the largest value b.attempt can reach once every Duration() call under way
\* has stored its increment
AttemptCeiling ==
    LET stale == {attempt} \cup {tmp[v] : v \in {u \in Workers : pc[u] = "incStore"}}
        top == CHOOSE m \in stale : \A x \in stale : x <= m
    IN top + Cardinality({v \in Workers : pc[v] \in {"incLoad", "incStore"}})

\* client.Get returns another error: hasFailed = true, and Duration() starts:
\* d := b.ForAttempt(b.attempt)
FetchError(w) ==
    /\ ~crashed
    /\ pc[w] = "fetch"
    /\ AttemptCeiling < MaxAttempt
    /\ consecFails[w] < MaxAttempt
    /\ hasFailed' = [hasFailed EXCEPT ![w] = TRUE]
    /\ d' = [d EXCEPT ![w] = ForAttempt(Backoff, attempt)]
    /\ consecFails' = [consecFails EXCEPT ![w] = @ + 1]
    /\ everFail' = [everFail EXCEPT ![w] = TRUE]
    /\ pc' = [pc EXCEPT ![w] = "incLoad"]
    /\ UNCHANGED <<clients, chanCap, closed, closedChan, wg, mainPc, next,
                   started, attempt, tmp, item, nextItem, buf, received,
                   closeCalls, crashed, everOk>>
    /\ UNCHANGED afterClose
    /\ UNCHANGED otherThanReader

\* b.attempt++ : the load
IncLoad(w) ==
    /\ ~crashed
    /\ pc[w] = "incLoad"
    /\ tmp' = [tmp EXCEPT ![w] = attempt]
    /\ pc' = [pc EXCEPT ![w] = "incStore"]
    /\ UNCHANGED <<clients, chanCap, closed, closedChan, wg, mainPc, next,
                   started, hasFailed, attempt, d, item, nextItem, buf,
                   received, closeCalls, crashed, consecFails, everOk, everFail>>
    /\ UNCHANGED afterClose
    /\ UNCHANGED otherThanReader

\* b.attempt++ : the store; Duration() returns d and time.After(d) is armed
IncStore(w) ==
    /\ ~crashed
    /\ pc[w] = "incStore"
    /\ attempt' = tmp[w] + 1
    /\ tmp' = [tmp EXCEPT ![w] = 0]
    /\ pc' = [pc EXCEPT ![w] = "sleep"]
    /\ UNCHANGED <<clients, chanCap, closed, closedChan, wg, mainPc, next,
                   started, hasFailed, d, item, nextItem, buf, received,
                   closeCalls, crashed, consecFails, everOk, everFail>>
    /\ UNCHANGED afterClose
    /\ UNCHANGED otherThanReader

\* <-time.After(d) fires
SleepElapsed(w) ==
    /\ ~crashed
    /\ pc[w] = "sleep"
    /\ d' = [d EXCEPT ![w] = 0]
    /\ pc' = [pc EXCEPT ![w] = "select"]
    /\ UNCHANGED <<clients, chanCap, closed, closedChan, wg, mainPc, next,
                   started, hasFailed, attempt, tmp, item, nextItem, buf,
                   received, closeCalls, crashed, consecFails, everOk, everFail>>
    /\ UNCHANGED afterClose
    /\ UNCHANGED otherThanReader

\* ch <- item on a buffered channel with room
Send(w) ==
    /\ ~crashed
    /\ pc[w] = "push"
    /\ Len(buf) < chanCap
    /\ buf' = Append(buf, <<w, item[w]>>)
    /\ item' = [item EXCEPT ![w] = 0]
    /\ pc' = [pc EXCEPT ![w] = "select"]
    /\ UNCHANGED <<clients, chanCap, closed, closedChan, wg, mainPc, next,
                   started, hasFailed, attempt, d, tmp, nextItem, received,
                   closeCalls, crashed, consecFails, everOk, everFail>>
    /\ afterClose' = [afterClose EXCEPT ![w] = IF closedChan THEN @ + 1 ELSE @]
    /\ UNCHANGED otherThanReader

\* ch <- item meeting a receive of the consumer while the buffer is empty
Handoff(w) ==
    /\ ~crashed
    /\ pc[w] = "push"
    /\ buf = <<>>
    /\ received' = Append(received, <<w, item[w]>>)
    /\ item' = [item EXCEPT ![w] = 0]
    /\ pc' = [pc EXCEPT ![w] = "select"]
    /\ UNCHANGED <<clients, chanCap, closed, closedChan, wg, mainPc, next,
                   started, hasFailed, attempt, d, tmp, nextItem, buf,
                   closeCalls, crashed, consecFails, everOk, everFail>>
    /\ afterClose' = [afterClose EXCEPT ![w] = IF closedChan THEN @ + 1 ELSE @]
    /\ UNCHANGED otherThanReader

\* the consumer receives the head of the buffer
Recv ==
    /\ ~crashed
    /\ buf # <<>>
    /\ received' = Append(received, Head(buf))
    /\ buf' = Tail(buf)
    /\ UNCHANGED <<clients, chanCap, closed, closedChan, wg, mainPc, next,
                   started, pc, hasFailed, attempt, d, tmp, item, nextItem,
                   closeCalls, crashed, consecFails, everOk, everFail>>
    /\ UNCHANGED afterClose
    /\ UNCHANGED otherThanReader

\* select { case <-closed: return }, with the deferred r.wg.Done()
SelectClosed(w) ==
    /\ ~crashed
    /\ pc[w] = "select"
    /\ closedChan
    /\ pc' = [pc EXCEPT ![w] = "done"]
    /\ wg' = wg - 1
    /\ UNCHANGED <<clients, chanCap, closed, closedChan, mainPc, next, started,
                   hasFailed, attempt, d, tmp, item, nextItem, buf, received,
                   closeCalls, crashed, consecFails, everOk, everFail>>
    /\ UNCHANGED afterClose
    /\ UNCHANGED otherThanReader

\* a worker that gives up after a failed fetch instead of continuing
SelectDefault_ExitOnFail(w) ==
    /\ ~crashed
    /\ pc[w] = "select"
    /\ ~closedChan
    /\ pc' = [pc EXCEPT ![w] = IF hasFailed[w] THEN "done" ELSE "fetch"]
    /\ wg' = IF hasFailed[w] THEN wg - 1 ELSE wg
    /\ UNCHANGED <<clients, chanCap, closed, closedChan, mainPc, next, started,
                   hasFailed, attempt, d, tmp, item, nextItem, buf, received,
                   closeCalls, crashed, consecFails, everOk, everFail>>
    /\ UNCHANGED afterClose
    /\ UNCHANGED otherThanReader

\* the default branch taken without looking at the closed channel
SelectDefault_IgnoreClose(w) ==
    /\ ~crashed
    /\ pc[w] = "select"
    /\ pc' = [pc EXCEPT ![w] = "fetch"]
    /\ UNCHANGED <<clients, chanCap, closed, closedChan, wg, mainPc, next,
                   started, hasFailed, attempt, d, tmp, item, nextItem, buf,
                   received, closeCalls, crashed, consecFails, everOk, everFail>>
    /\ UNCHANGED afterClose
    /\ UNCHANGED otherThanReader

\* select { default: continue }
SelectDefault(w) ==
    /\ ~crashed
    /\ pc[w] = "select"
    /\ ~closedChan
    /\ pc' = [pc EXCEPT ![w] = "fetch"]
    /\ UNCHANGED <<clients, chanCap, closed, closedChan, wg, mainPc, next,
                   started, hasFailed, attempt, d, tmp, item, nextItem, buf,
                   received, closeCalls, crashed, consecFails, everOk, everFail>>
    /\ UNCHANGED afterClose
    /\ UNCHANGED otherThanReader

\* Close() without the nil test: close() of a nil channel panics
Close_NoNilCheck ==
    /\ ~crashed
    /\ closeCalls < MaxCloseCalls
    /\ closeCalls' = closeCalls + 1
    /\ IF closed = 0 \/ closedChan
         THEN crashed' = TRUE /\ UNCHANGED closedChan
         ELSE closedChan' = TRUE /\ UNCHANGED crashed
    /\ UNCHANGED <<clients, chanCap, closed, wg, mainPc, next, started, pc,
                   hasFailed, attempt, d, tmp, item, nextItem, buf, received,
                   consecFails, everOk, everFail>>
    /\ UNCHANGED afterClose
    /\ UNCHANGED otherThanReader

\* Close(): nil r.closed is skipped, close() of a closed channel panics
Close ==
    /\ ~crashed
    /\ closeCalls < MaxCloseCalls
    /\ closeCalls' = closeCalls + 1
    /\ IF closed = 0
         THEN UNCHANGED <<closedChan, crashed>>
         ELSE IF closedChan
                THEN crashed' = TRUE /\ UNCHANGED closedChan
                ELSE closedChan' = TRUE /\ UNCHANGED crashed
    /\ UNCHANGED <<clients, chanCap, closed, wg, mainPc, next, started, pc,
                   hasFailed, attempt, d, tmp, item, nextItem, buf, received,
                   consecFails, everOk, everFail>>
    /\ UNCHANGED afterClose
    /\ UNCHANGED otherThanReader

WorkerStep(w) ==
    \/ FetchItem(w)
    \/ FetchMiss(w)
    \/ FetchError(w)
    \/ IncLoad(w)
    \/ IncStore(w)
    \/ SleepElapsed(w)
    \/ Send(w)
    \/ SelectClosed(w)
    \/ SelectDefault(w)

RNext ==
    \/ ReadIntoChannel
    \/ Spawn
    \/ Wait
    \/ \E w \in Workers : FetchItem(w)
    \/ \E w \in Workers : FetchMiss(w)
    \/ \E w \in Workers : FetchError(w)
    \/ \E w \in Workers : IncLoad(w)
    \/ \E w \in Workers : IncStore(w)
    \/ \E w \in Workers : SleepElapsed(w)
    \/ \E w \in Workers : Send(w)
    \/ \E w \in Workers : Handoff(w)
    \/ \E w \in Workers : SelectClosed(w)
    \/ \E w \in Workers : SelectDefault(w)
    \/ Recv
    \/ Close

Next == RNext

Spec == Init /\ [][Next]_vars

\* every fetch returns, every sleep elapses, every goroutine that can run
\* does; the consumer is free to stop receiving
FairSpec ==
    /\ Spec
    /\ \A w \in 1..MaxClients : WF_vars(w \in Workers /\ WorkerStep(w))
    /\ WF_vars(ReadIntoChannel \/ Spawn \/ Wait)

\* ------------------------------------------------------------------ writer
WInit ==
    /\ writers \in 0..MaxWriterClients
    /\ offset = 0
    /\ wpc = [p \in 1..MaxWriters |-> "idle"]
    /\ sel = [p \in 1..MaxWriters |-> -1]
    /\ calls = <<>>
    /\ enq = [e \in 0..(writers - 1) |-> 0]
    /\ werr = [p \in 1..MaxWriters |-> "none"]

\* atomic.AddUint64(addr, delta): the new value.  MaxWrites keeps the counter
\* far below 2^64, where it would wrap.
AddUint64(v, delta) == v + delta

\* the counter clamped to the last index instead of reduced modulo n
ClientIndex_Clamp(newOffset, n) == IF newOffset >= n THEN n - 1 ELSE newOffset

\* the index getClient computes from the new counter value
ClientIndex(newOffset, n) == newOffset % n

\* getClient advancing w.offset before it looks at len(w.clients)
WriteNoClient_Counts(p) ==
    /\ wpc[p] = "idle"
    /\ writers = 0
    /\ offset < MaxWrites
    /\ offset' = AddUint64(offset, 1)
    /\ werr' = [werr EXCEPT ![p] = "Unable to get a client from the pool."]
    /\ UNCHANGED <<writers, wpc, sel, calls, enq>>
    /\ UNCHANGED otherThanWriter

\* Write with len(w.clients) == 0: getClient returns nil, Write returns the error
WriteNoClient(p) ==
    /\ wpc[p] = "idle"
    /\ writers = 0
    /\ werr' = [werr EXCEPT ![p] = "Unable to get a client from the pool."]
    /\ UNCHANGED <<writers, offset, wpc, sel, calls, enq>>
    /\ UNCHANGED otherThanWriter

\* a plain load and store of w.offset: a call that starts while another call
\* is under way loads the value that call loaded
getClient_Racy(p) ==
    /\ wpc[p] = "idle"
    /\ writers > 0
    /\ Len(calls) < MaxWrites
    /\ LET val == IF \E q \in 1..MaxWriters : wpc[q] = "set"
                    THEN offset ELSE AddUint64(offset, 1)
           idx == ClientIndex(val, writers)
       IN /\ offset' = val
          /\ sel' = [sel EXCEPT ![p] = idx]
          /\ calls' = Append(calls, [val |-> val, idx |-> idx, by |-> p])
    /\ wpc' = [wpc EXCEPT ![p] = "set"]
    /\ UNCHANGED <<writers, enq, werr>>
    /\ UNCHANGED otherThanWriter

\* Write calls getClient: one atomic add on w.offset, then the modulo
getClient(p) ==
    /\ wpc[p] = "idle"
    /\ writers > 0
    /\ Len(calls) < MaxWrites
    /\ LET val == AddUint64(offset, 1)
           idx == ClientIndex(val, writers)
       IN /\ offset' = val
          /\ sel' = [sel EXCEPT ![p] = idx]
          /\ calls' = Append(calls, [val |-> val, idx |-> idx, by |-> p])
    /\ wpc' = [wpc EXCEPT ![p] = "set"]
    /\ UNCHANGED <<writers, enq, werr>>
    /\ UNCHANGED otherThanWriter

\* err = c.Set(queueName, item) on the selected client; Write returns err
Set(p, err) ==
    /\ wpc[p] = "set"
    /\ enq' = [enq EXCEPT ![sel[p]] = @ + 1]
    /\ werr' = [werr EXCEPT ![p] = err]
    /\ sel' = [sel EXCEPT ![p] = -1]
    /\ wpc' = [wpc EXCEPT ![p] = "idle"]
    /\ UNCHANGED <<writers, offset, calls>>
    /\ UNCHANGED otherThanWriter

WNext ==
    \/ \E p \in 1..MaxWriters : WriteNoClient(p)
    \/ \E p \in 1..MaxWriters : getClient(p)
    \/ \E p \in 1..MaxWriters, err \in {"nil", "set failed"} : Set(p, err)

WriterInit == RInitWith(0, 0) /\ WInit /\ BInitIdle /\ SInitIdle

WriterNext == WNext

WriterSpec == WriterInit /\ [][WriterNext]_vars

\* ------------------------------------------------------------------- stats
\* A stat name is the sequence of its words, "curr_items" being
\* <<"curr", "items">>; a value is a string.

\* unicode.ToUpper of a word's first letter
Cap(w) ==
    CASE w = "version" -> "Version"
      [] w = "uptime" -> "Uptime"
      [] w = "time" -> "Time"
      [] w = "curr" -> "Curr"
      [] w = "total" -> "Total"
      [] w = "connections" -> "Connections"
      [] w = "items" -> "Items"
      [] w = "cmd" -> "Cmd"
      [] w = "get" -> "Get"
      [] w = "set" -> "Set"
      [] w = "queue" -> "Queue"
      [] w = "waiters" -> "Waiters"
      [] w = "open" -> "Open"
      [] w = "transactions" -> "Transactions"
      [] w = "weird" -> "Weird"
      [] w = "thing" -> "Thing"
      [] w = "foo" -> "Foo"
      [] w = "age" -> "Age"
      [] w = "a" -> "A"
      [] w = "b" -> "B"
      [] OTHER -> w

\* toCamel: every word capitalised, the underscores dropped
toCamel(stat) == [i \in 1..Len(stat) |-> Cap(stat[i])]

\* reflect Kind of the ServerStats field of that name ("Invalid": no field)
FieldKind(camel) ==
    CASE camel = <<"Version">> -> "String"
      [] camel \in {<<"Uptime">>, <<"Time">>, <<"Curr", "Connections">>,
                    <<"Total", "Connections">>} -> "Uint32"
      [] camel \in {<<"Curr", "Items">>, <<"Total", "Items">>,
                    <<"Cmd", "Get">>, <<"Cmd", "Set">>} -> "Uint64"
      [] camel = <<"Server", "Err">> -> "Interface"
      [] camel = <<"Errs">> -> "Slice"
      [] camel \in {<<"Unknown", "Stats">>, <<"Queues">>} -> "Map"
      [] OTHER -> "Invalid"

ScalarFields ==
    {<<"Version">>, <<"Uptime">>, <<"Time">>, <<"Curr", "Connections">>,
     <<"Total", "Connections">>, <<"Curr", "Items">>, <<"Total", "Items">>,
     <<"Cmd", "Get">>, <<"Cmd", "Set">>}

\* strconv.ParseUint(value, 10, bits): the decimal numerals among the values
IsUint(value) == value \in {"1", "3", "5", "9", "03"}

UintOf(value) ==
    CASE value = "1" -> 1
      [] value = "3" -> 3
      [] value = "5" -> 5
      [] value = "9" -> 9
      [] value = "03" -> 3

\* new(ServerStats) with the two maps made
NewServerStats ==
    [ServerErr |-> "nil",
     Errs |-> <<>>,
     UnknownStats |-> <<>>,
     Fields |-> [f \in ScalarFields |-> IF f = <<"Version">> THEN "" ELSE 0],
     Queues |-> <<>>]

\* m[k] = v on a map
MapSet(m, k, v) == [x \in DOMAIN m \cup {k} |-> IF x = k THEN v ELSE m[x]]

\* parseSetStatValue: [err, server]
parseSetStatValue(server, stat, value) ==
    LET f == toCamel(stat)
        kind == FieldKind(f)
    IN CASE kind \in {"Uint32", "Uint64"} ->
              IF IsUint(value)
                THEN [err |-> "nil",
                      server |-> [server EXCEPT !.Fields[f] = UintOf(value)]]
                ELSE [err |-> <<"unable to parse uint value", stat>>,
                      server |-> server]
         [] kind = "String" ->
              [err |-> "nil", server |-> [server EXCEPT !.Fields[f] = value]]
         [] OTHER -> [err |-> "errUnknownStat", server |-> server]

\* strings.HasPrefix(stat, "queue_")
HasQueuePrefix(stat) == Len(stat) >= 2 /\ stat[1] = "queue"

\* strings.HasSuffix(stat, "_" + suffix words)
HasSuffix(stat, suffix) ==
    /\ Len(stat) > Len(suffix)
    /\ SubSeq(stat, Len(stat) - Len(suffix) + 1, Len(stat)) = suffix

\* strings.Replace(str, "_" + suffix words, "", 1): the first occurrence goes
ReplaceFirst(str, suffix) ==
    LET k == Len(suffix)
        at == {i \in 2..(Len(str) - k + 1) : SubSeq(str, i, i + k - 1) = suffix}
    IN IF at = {} THEN str
       ELSE LET i == CHOOSE x \in at : \A y \in at : x <= y
            IN SubSeq(str, 1, i - 1) \o SubSeq(str, i + k, Len(str))

\* parseStatQueue: "queue_" replaced once, then the suffix replaced once
parseStatQueue(stat, suffix) == ReplaceFirst(Tail(stat), suffix)

\* findOrCreateQueue: the server with the queue's record present
findOrCreateQueue(server, queue) ==
    IF queue \in DOMAIN server.Queues THEN server
    ELSE [server EXCEPT !.Queues =
             MapSet(@, queue, [Name |-> queue, Items |-> 0, Waiters |-> 0,
                               OpenTransactions |-> 0])]

\* one of the three queue branches: [ret, server]
QueueBranch(server, stat, value, suffix, field) ==
    LET q == parseStatQueue(stat, suffix)
        made == findOrCreateQueue(server, q)
    IN IF IsUint(value)
         THEN [ret |-> "continue",
               server |-> [made EXCEPT !.Queues[q][field] = UintOf(value)]]
         ELSE [ret |-> <<"unable to parse uint value", value>>, server |-> made]

\* the body of the read loop for one "STAT <name> <value>" line: [ret, server],
\* ret being "continue" or the error the callback returns
ProcessLine(server, stat, value) ==
    LET r == parseSetStatValue(server, stat, value)
    IN IF r.err = "nil" THEN [ret |-> "continue", server |-> r.server]
       ELSE IF r.err # "errUnknownStat"
         THEN [ret |-> "continue",
               server |-> [server EXCEPT !.Errs = Append(@, r.err)]]
       ELSE IF HasQueuePrefix(stat)
         THEN IF HasSuffix(stat, <<"open", "transactions">>)
                THEN QueueBranch(server, stat, value, <<"open", "transactions">>,
                                 "OpenTransactions")
              ELSE IF HasSuffix(stat, <<"items">>)
                THEN QueueBranch(server, stat, value, <<"items">>, "Items")
              ELSE IF HasSuffix(stat, <<"waiters">>)
                THEN QueueBranch(server, stat, value, <<"waiters">>, "Waiters")
              ELSE [ret |-> "continue", server |-> server]
       ELSE [ret |-> "continue",
             server |-> [server EXCEPT !.UnknownStats = MapSet(@, stat, value)]]

\* the STAT lines a server sends
StatLines ==
    {[name |-> <<"version">>, value |-> "1.4.2"],
     [name |-> <<"curr", "items">>, value |-> "03"],
     [name |-> <<"uptime">>, value |-> "abc"],
     [name |-> <<"queue", "foo", "items">>, value |-> "3"],
     [name |-> <<"queue", "foo", "waiters">>, value |-> "1"],
     [name |-> <<"queue", "foo", "open", "transactions">>, value |-> "abc"],
     [name |-> <<"weird", "thing">>, value |-> "9"],
     [name |-> <<"queue", "foo", "age">>, value |-> "5"],
     [name |-> <<"queue", "a", "items", "b", "items">>, value |-> "3"],
     [name |-> <<"queue", "a", "items", "b", "waiters">>, value |-> "1"]}

SInit ==
    /\ addrs \in 0..MaxAddrs
    /\ statsPc = "start"
    /\ statsErr = "nil"
    /\ servers = <<>>
    /\ gPc = <<>>
    /\ swg = 0
    /\ lines = <<>>

Addrs == 1..addrs

\* StatsServers up to wg.Wait: the selector lists every address, each gets
\* its ServerStats, the WaitGroup is set and one goroutine per address starts
StatsServers ==
    /\ statsPc = "start"
    /\ statsPc' = "wait"
    /\ servers' = [a \in Addrs |-> NewServerStats]
    /\ gPc' = [a \in Addrs |-> "connect"]
    /\ lines' = [a \in Addrs |-> <<>>]
    /\ swg' = addrs
    /\ UNCHANGED <<addrs, statsErr>>
    /\ UNCHANGED otherThanStats

\* selector.Each returns an error after k addresses: StatsServers returns it
StatsServersEachFails ==
    /\ statsPc = "start"
    /\ \E k \in 0..addrs :
         /\ servers' = [a \in 1..k |-> NewServerStats]
         /\ gPc' = [a \in 1..k |-> "none"]
         /\ lines' = [a \in 1..k |-> <<>>]
    /\ statsErr' = "selector error"
    /\ statsPc' = "returned"
    /\ UNCHANGED <<addrs, swg>>
    /\ UNCHANGED otherThanStats

\* the end of statsFromAddr and of the goroutine: server.ServerErr = err,
\* then wg.Done()
Finish(a, server, err) ==
    /\ servers' = [servers EXCEPT ![a] = [server EXCEPT !.ServerErr = err]]
    /\ gPc' = [gPc EXCEPT ![a] = "done"]
    /\ swg' = swg - 1

ConnectFails_MarksAll(a) ==
    /\ statsPc = "wait"
    /\ gPc[a] = "connect"
    /\ servers' = [b \in Addrs |->
                     [servers[b] EXCEPT !.ServerErr = "connect error"]]
    /\ gPc' = [gPc EXCEPT ![a] = "done"]
    /\ swg' = swg - 1
    /\ UNCHANGED <<addrs, statsPc, statsErr, lines>>
    /\ UNCHANGED otherThanStats

\* withAddrRw cannot connect to a, or the "stats" command cannot be written
ConnectFails(a) ==
    /\ statsPc = "wait"
    /\ gPc[a] = "connect"
    /\ Finish(a, servers[a], "connect error")
    /\ UNCHANGED <<addrs, statsPc, statsErr, lines>>
    /\ UNCHANGED otherThanStats

\* the connection is made and the command sent
Connect(a) ==
    /\ statsPc = "wait"
    /\ gPc[a] = "connect"
    /\ gPc' = [gPc EXCEPT ![a] = "read"]
    /\ UNCHANGED <<addrs, statsPc, statsErr, servers, swg, lines>>
    /\ UNCHANGED otherThanStats

\* one turn of the loop on a STAT line
ReadLine(a) ==
    /\ statsPc = "wait"
    /\ gPc[a] = "read"
    /\ Len(lines[a]) < MaxLines
    /\ \E l \in StatLines :
         LET r == ProcessLine(servers[a], l.name, l.value)
         IN /\ lines' = [lines EXCEPT ![a] = Append(@, l)]
            /\ IF r.ret = "continue"
                 THEN /\ servers' = [servers EXCEPT ![a] = r.server]
                      /\ UNCHANGED <<gPc, swg>>
                 ELSE Finish(a, r.server, r.ret)
    /\ UNCHANGED <<addrs, statsPc, statsErr>>
    /\ UNCHANGED otherThanStats

\* rw.ReadBytes fails
ReadFails(a) ==
    /\ statsPc = "wait"
    /\ gPc[a] = "read"
    /\ Finish(a, servers[a], "read error")
    /\ UNCHANGED <<addrs, statsPc, statsErr, lines>>
    /\ UNCHANGED otherThanStats

\* the line is "END\r\n"
ReadEnd(a) ==
    /\ statsPc = "wait"
    /\ gPc[a] = "read"
    /\ Finish(a, servers[a], "nil")
    /\ UNCHANGED <<addrs, statsPc, statsErr, lines>>
    /\ UNCHANGED otherThanStats

\* wg.Wait() and the return
StatsWait ==
    /\ statsPc = "wait"
    /\ swg = 0
    /\ statsPc' = "returned"
    /\ UNCHANGED <<addrs, statsErr, servers, gPc, swg, lines>>
    /\ UNCHANGED otherThanStats

SNext ==
    \/ StatsServers
    \/ StatsServersEachFails
    \/ \E a \in Addrs : ConnectFails(a)
    \/ \E a \in Addrs : Connect(a)
    \/ \E a \in Addrs : ReadLine(a)
    \/ \E a \in Addrs : ReadFails(a)
    \/ \E a \in Addrs : ReadEnd(a)
    \/ StatsWait

StatsInit == RInitWith(0, 0) /\ WInitIdle /\ BInitIdle /\ SInit

StatsSpec == StatsInit /\ [][SNext]_vars

\* ----------------------------------------------------------- Backoff alone
BNext ==
    \/ Duration
    \/ Reset
    \/ \E n \in 0..MaxN : ForAttemptCall(n)

BackoffInit == RInitWith(0, 0) /\ WInitIdle /\ BInit /\ SInitIdle

BackoffSpec == BackoffInit /\ [][BNext]_vars

\* ------------------------------------------------------------------ claims
\* the Backoff whose attempt counter sets worker w's next wait: every worker
\* dereferences the same r.Backoff
AttemptOf(w) == attempt

\* the output channel's content in channel order: received, then buffered
Chan == received \o buf

OfEndpoint(seq, e) == SelectSeq(seq, LAMBDA x : x[1] = e)

Live(w) == pc[w] \notin {"none", "done"}

\* C1: once Close() has closed the session's channel, ReadIntoChannel
\* eventually returns, with no help from the consumer (fetches return,
\* sleeps elapse, the consumer need not receive)
C1_CloseTerminatesWithoutDrain ==
    (closedChan /\ mainPc = "loop") ~> (mainPc = "returned" \/ crashed)

\* C2: the range loop starts exactly one worker per client, and with at least
\* one client ReadIntoChannel has returned only if Close() was invoked and
\* every worker has exited
C2_OneWorkerEachAndJoin ==
    /\ \A e \in Workers : started[e] = (IF e < next THEN 1 ELSE 0)
    /\ \A e \in Workers : (pc[e] # "none") <=> (e < next)
    /\ mainPc = "returned" => next > clients
    /\ (mainPc = "returned" /\ clients >= 1) =>
          /\ closeCalls >= 1
          /\ closedChan
          /\ \A w \in Workers : pc[w] = "done"

C2_Witness == mainPc = "returned" /\ clients = 2 /\ Len(received) >= 1

\* C3: a step of worker w that resets or increments a backoff counter leaves
\* the counter of every other live worker as it was
C3_BackoffPerWorker ==
    [][\A w \in Workers :
          (FetchItem(w) \/ FetchMiss(w) \/ IncStore(w)) =>
             \A v \in Workers \ {w} : Live(v) => AttemptOf(v)' = AttemptOf(v)]_vars

\* C4: with endpoint f failing every fetch and endpoint s succeeding every
\* fetch, the channel carries no item of f, and the wait of f's n-th
\* consecutive failure is ForAttempt(n-1)
C4_FailingEndpointBackoffGrows ==
    \A f \in Workers, s \in Workers :
       (f # s /\ ~everOk[f] /\ everOk[s] /\ ~everFail[s]) =>
          /\ OfEndpoint(Chan, f) = <<>>
          /\ pc[f] \in {"incLoad", "incStore", "sleep"} =>
                d[f] = ForAttempt(Backoff, consecFails[f] - 1)

\* C5: for each endpoint, the channel holds that endpoint's fetched items in
\* fetch order, each once; only the item its worker is pushing is missing
C5_PerEndpointOrder ==
    \A e \in Workers :
       LET out == OfEndpoint(Chan, e)
           pushed == IF pc[e] = "push" THEN nextItem[e] - 1 ELSE nextItem[e]
       IN /\ Len(out) = pushed
          /\ \A k \in 1..pushed : out[k] = <<e, k>>
          /\ pc[e] = "push" <=> item[e] # 0
          /\ pc[e] = "push" => item[e] = nextItem[e]

C5_Witness ==
    /\ clients = 2
    /\ received = << <<1, 1>>, <<2, 1>>, <<1, 2>> >>
    /\ everFail[1]

\* C6: a worker exits only from its select and only when Close() has closed
\* the channel; after a failed fetch it goes on to the backoff wait and, the
\* channel not closed, to the next fetch
C6_NoExitOnFetchError ==
    [][\A w \in Workers :
          /\ (pc[w] # "done" /\ pc'[w] = "done") =>
                (pc[w] = "select" /\ closedChan /\ closeCalls >= 1)
          /\ FetchError(w) => (pc'[w] = "incLoad" /\ hasFailed'[w])
          /\ (pc[w] = "incLoad" /\ pc'[w] # pc[w]) => pc'[w] = "incStore"
          /\ (pc[w] = "incStore" /\ pc'[w] # pc[w]) => pc'[w] = "sleep"
          /\ (pc[w] = "sleep" /\ pc'[w] # pc[w]) => pc'[w] = "select"
          /\ (pc[w] = "select" /\ ~closedChan /\ pc'[w] # pc[w]) => pc'[w] = "fetch"]_vars

C6_Witness ==
    \E w \in Workers :
       pc[w] = "fetch" /\ hasFailed[w] /\ consecFails[w] = 2 /\ ~closedChan

\* C7: a Close() on a session whose channel is already closed leaves it closed
\* and does not crash
C7_CloseIdempotent ==
    [][(Close /\ closedChan) => (closedChan' /\ ~crashed')]_vars

\* C8: ReadIntoChannel on a reader with zero clients hands its caller a
\* configuration error
C8_ZeroEndpointsConfigError ==
    (clients = 0 /\ mainPc = "returned") => ReadIntoChannelResult = "configuration error"

Count(e) == Cardinality({j \in 1..Len(calls) : calls[j].idx = e})

\* C9: after m calls over k >= 1 endpoints every endpoint was selected
\* floor(m/k) or ceil(m/k) times, each call selects the endpoint after the one
\* the previous call selected, cycling, and the selected endpoint gets the Set
C9_RoundRobin ==
    writers >= 1 =>
       LET m == Len(calls)
           k == writers
       IN /\ \A e \in 0..(k - 1) : Count(e) \in {m \div k, (m + k - 1) \div k}
          /\ \A j \in 1..m : calls[j].idx \in 0..(k - 1)
          /\ \A j \in 1..(m - 1) : calls[j + 1].idx = (calls[j].idx + 1) % k
          /\ (\A p \in 1..MaxWriters : wpc[p] = "idle") =>
                \A e \in 0..(k - 1) : enq[e] = Count(e)

C9_Witness ==
    /\ writers = 3
    /\ Len(calls) = 5
    /\ \A p \in 1..MaxWriters : wpc[p] = "idle"

\* C10: no two calls observe the same counter value, also when they overlap,
\* and k*j calls over k endpoints select each endpoint j times
C10_AtomicCounter ==
    writers >= 1 =>
       LET m == Len(calls)
           k == writers
       IN /\ \A i \in 1..m, j \in 1..m : i # j => calls[i].val # calls[j].val
          /\ m % k = 0 => \A e \in 0..(k - 1) : Count(e) = m \div k

C10_Witness ==
    /\ writers = 2
    /\ Len(calls) = 4
    /\ \A p \in 1..MaxWriters : wpc[p] = "set"

\* C11: on a writer with zero endpoints every Write returns the configuration
\* error, no Set call is made and w.offset stays as constructed
C11_ZeroEndpointsWrite ==
    writers = 0 =>
       /\ offset = 0
       /\ calls = <<>>
       /\ DOMAIN enq = {}
       /\ \A p \in 1..MaxWriters :
             /\ wpc[p] = "idle"
             /\ sel[p] = -1
             /\ werr[p] \in {"none", "Unable to get a client from the pool."}

C11_Witness ==
    /\ writers = 0
    /\ \A p \in 1..MaxWriters : werr[p] = "Unable to get a client from the pool."

InRange(b, x) == effectiveMin(b) <= x /\ x <= effectiveMax(b)

\* the guard or the clamp is what produced ForAttempt(b, n)
Overflows(b, n) == Pow(effectiveMin(b), effectiveFactor(b), n) > maxInt64

\* C12 as stated: for every n >= 0 and every Min, Max, Factor, ForAttempt(n)
\* lies in [effectiveMin, effectiveMax]
C12_ForAttemptInRange ==
    /\ faN >= 0 => InRange(bo, faRes)
    /\ lastD # -1 => InRange(bo, lastD)

\* C12 amended: ForAttempt(n) lies in [effectiveMin, effectiveMax] when
\* effectiveMin <= effectiveMax, and is effectiveMax when effectiveMin >
\* effectiveMax
C12_ForAttemptInRangeOrMax ==
    LET ok(x) == IF effectiveMin(bo) <= effectiveMax(bo)
                   THEN InRange(bo, x)
                   ELSE x = effectiveMax(bo)
    IN /\ faN >= 0 => ok(faRes)
       /\ lastD # -1 => ok(lastD)

C12_Witness ==
    /\ bo.Min = 0 /\ bo.Max = -1 /\ bo.Factor = <<0, 1>>
    /\ faN = MaxN
    /\ Overflows(bo, faN)
    /\ faRes = 10000

\* C13: the j-th Duration() after construction or after a Reset() returns
\* ForAttempt(j-1) and leaves the counter at j; Reset() leaves it at 0
C13_DurationThenIncrement ==
    /\ boAttempt = sinceReset
    /\ sinceReset >= 1 => lastD = ForAttempt(bo, sinceReset - 1)
    /\ sinceReset = 0 => lastD = -1

C13_Witness ==
    /\ wasReset
    /\ sinceReset = 1
    /\ bo = Backoff
    /\ lastD = 100

\* C14: with effective factor > 1 and effectiveMin < effectiveMax,
\* ForAttempt(n) <= ForAttempt(n+1)
C14_NonDecreasing ==
    LET f == effectiveFactor(bo)
    IN (faN >= 0 /\ f[1] > f[2] /\ effectiveMin(bo) < effectiveMax(bo)) =>
          faRes <= ForAttempt(bo, faN + 1)

C14_Witness ==
    /\ bo = Backoff
    /\ faN >= 1
    /\ ~Overflows(bo, faN)
    /\ Overflows(bo, faN + 1)
    /\ faRes = 300000

\* C19: a worker pushes at most one item after close(r.closed), and is then
\* at its select or gone; over the session at most one item per client
C19_AtMostOnePushAfterClose ==
    /\ \A w \in Workers : afterClose[w] <= 1
    /\ \A w \in Workers : afterClose[w] = 1 => pc[w] \in {"select", "done"}
    /\ Cardinality({w \in Workers : afterClose[w] > 0}) <= clients
    /\ ~closedChan => \A w \in Workers : afterClose[w] = 0

C19_Witness ==
    /\ clients = 2
    /\ mainPc = "returned"
    /\ \A w \in Workers : afterClose[w] = 1

\* C20: a Close() before ReadIntoChannel has made r.closed changes nothing of
\* the reader; ReadIntoChannel then makes a fresh, open channel, which only a
\* later Close() closes, and workers exit only once it is closed
C20_EarlyCloseIsNoOp ==
    [][/\ (Close /\ closed = 0) =>
             UNCHANGED <<clients, chanCap, closed, closedChan, wg, mainPc, next,
                         started, pc, hasFailed, attempt, d, tmp, item, nextItem,
                         buf, received, crashed, afterClose>>
       /\ ReadIntoChannel => (closed' = 1 /\ ~closedChan' /\ ~crashed')
       /\ (~closedChan /\ closedChan') => (closed = 1 /\ closeCalls' = closeCalls + 1)
       /\ \A w \in Workers : (pc[w] # "done" /\ pc'[w] = "done") => closedChan]_vars

C20_Witness ==
    /\ clients >= 1
    /\ closeCalls = 2
    /\ ~crashed
    /\ mainPc = "returned"
    /\ received # <<>>

\* the report the lines ls alone produce, ServerErr apart
RECURSIVE Replay(_)
Replay(ls) ==
    IF ls = <<>> THEN NewServerStats
    ELSE LET l == ls[Len(ls)]
         IN ProcessLine(Replay(SubSeq(ls, 1, Len(ls) - 1)), l.name, l.value).server

\* C15: StatsServers returns only after every goroutine has finished; each
\* server's report is made of its own lines alone; ServerErr is set on a
\* server only by the end of its own query, and a connection failure on one
\* server is written to that server's ServerErr only.
C15_ConcurrentAndIsolated ==
    /\ (statsPc = "returned" /\ statsErr = "nil") =>
           \A a \in Addrs : gPc[a] = "done"
    /\ \A a \in DOMAIN servers :
         /\ [servers[a] EXCEPT !.ServerErr = "nil"] = Replay(lines[a])
         /\ servers[a].ServerErr # "nil" => gPc[a] = "done"
         /\ servers[a].ServerErr = "connect error" => lines[a] = <<>>

C15_Witness ==
    /\ statsPc = "returned"
    /\ statsErr = "nil"
    /\ \E a, b \in DOMAIN servers :
         /\ servers[a].ServerErr = "connect error"
         /\ servers[b].ServerErr = "nil"
         /\ Len(lines[b]) = MaxLines
         /\ servers[b].Fields[<<"Version">>] = "1.4.2"
         /\ servers[b].Fields[<<"Curr", "Items">>] = 3

\* the three queue-scoped counters of the protocol, queue_<name>_<counter>
QueueSuffixes == {<<"open", "transactions">>, <<"items">>, <<"waiters">>}

IsQueueCounter(stat) ==
    HasQueuePrefix(stat) /\ \E suffix \in QueueSuffixes : HasSuffix(stat, suffix)

SuffixOf(stat) == CHOOSE suffix \in QueueSuffixes : HasSuffix(stat, suffix)

\* <name> of queue_<name>_<counter>
QueueNameOf(stat) == SubSeq(stat, 2, Len(stat) - Len(SuffixOf(stat)))

CounterOf(stat) ==
    CASE SuffixOf(stat) = <<"open", "transactions">> -> "OpenTransactions"
      [] SuffixOf(stat) = <<"items">> -> "Items"
      [] SuffixOf(stat) = <<"waiters">> -> "Waiters"

IsScalar(stat) == FieldKind(toCamel(stat)) \in {"String", "Uint32", "Uint64"}

\* a counter line whose value is no unsigned number
BadValue(l) ==
    /\ \/ FieldKind(toCamel(l.name)) \in {"Uint32", "Uint64"}
       \/ ~IsScalar(l.name) /\ IsQueueCounter(l.name)
    /\ ~IsUint(l.value)

\* C16: every line read whose scalar or queue-scoped value fails to parse has
\* its error in the server's Errs, and no such line ends the parsing: the
\* query ends by the end marker, a connection error or a read error only.
C16_ParseErrorRecordedAndContinues ==
    \A a \in DOMAIN servers :
      /\ Len(servers[a].Errs) =
             Cardinality({i \in DOMAIN lines[a] : BadValue(lines[a][i])})
      /\ servers[a].ServerErr \in {"nil", "connect error", "read error"}

\* C17: every line read whose name is neither a scalar field nor a
\* queue-scoped counter is in UnknownStats under its name with the value of
\* the last such line.
C17_UnknownPreserved ==
    \A a \in DOMAIN servers : \A i \in DOMAIN lines[a] :
      LET l == lines[a][i]
          last == CHOOSE j \in DOMAIN lines[a] :
                    /\ lines[a][j].name = l.name
                    /\ \A k \in DOMAIN lines[a] :
                         lines[a][k].name = l.name => k <= j
      IN (~IsScalar(l.name) /\ ~IsQueueCounter(l.name)) =>
           /\ l.name \in DOMAIN servers[a].UnknownStats
           /\ servers[a].UnknownStats[l.name] = lines[a][last].value

\* the value the last parsable line of ls for queue q and counter c carries, 0
\* when there is none
LastCounter(ls, q, c) ==
    LET at == {i \in DOMAIN ls :
                 /\ ~IsScalar(ls[i].name) /\ IsQueueCounter(ls[i].name)
                 /\ QueueNameOf(ls[i].name) = q
                 /\ CounterOf(ls[i].name) = c
                 /\ IsUint(ls[i].value)}
    IN IF at = {} THEN 0
       ELSE UintOf(ls[CHOOSE i \in at : \A j \in at : j <= i].value)

\* the queues the lines ls refer to
QueuesIn(ls) ==
    {QueueNameOf(ls[i].name) :
       i \in {j \in DOMAIN ls : ~IsScalar(ls[j].name) /\ IsQueueCounter(ls[j].name)}}

\* C18: a server's Queues holds one record per queue its lines refer to, under
\* the queue's name, each counter carrying the value of the last line for it
\* and 0 when no line set it.
C18_MergedPerQueue ==
    \A a \in DOMAIN servers :
      /\ DOMAIN servers[a].Queues = QueuesIn(lines[a])
      /\ \A q \in DOMAIN servers[a].Queues :
           servers[a].Queues[q] =
             [Name |-> q,
              Items |-> LastCounter(lines[a], q, "Items"),
              Waiters |-> LastCounter(lines[a], q, "Waiters"),
              OpenTransactions |-> LastCounter(lines[a], q, "OpenTransactions")]

====
